---- MODULE Spec2Model ----
(***************************************************************************)
(* screenitshot: the capture driver (js/src/renderer.ts, js/src/index.ts), *)
(* the format resolver (js/src/types.ts) and the geometry computed by the  *)
(* in-page renderer modules (render/*.ts).                                 *)
(*                                                                         *)
(* One render is a chain of suspension points; every await of render() is  *)
(* one action.  External operations (browser, file system, decoding        *)
(* libraries, DOM measurements) are nondeterministic choices.              *)
(***************************************************************************)
EXTENDS Integers, Sequences, FiniteSets, TLC

VARIABLES
    pc,          \* position of screenshot()/Renderer.render
    req,         \* the request: identifier, payload bytes, options
    format,      \* value returned by resolveFormat
    browser,     \* "none" | "open" | "closed"
    viewport,    \* viewport of the page, <<width, height>>; <<0,0>> before newPage
    initScript,  \* init script registered by page.addInitScript, or NoScript
    globals,     \* globalThis of the loaded document: fileBase64/pageNumber/fileName
    modVars,     \* the module's own `let fileBase64`, `let pageNumber`
    channel,     \* window.renderComplete: "unset" | "pending" | "resolved" | "rejected"
    uiShown,     \* the manual file-input overlay is displayed
    doc,         \* the document the module decoded and measured
    metadata,    \* value the channel resolved with / the driver obtained
    trace,       \* driver steps completed so far, in order
    shot,        \* the screenshot taken: kind, clip, viewport at that moment
    result,      \* ScreenshotResult returned by render
    error,       \* message of the error thrown, "" when none
    pg,          \* pagination walk: module, content height, page, count, sum
    stderr,      \* line the CLI printed for a failed render, << >> when none
    other,       \* a second render running concurrently: its own copy of the
                 \* state above, exchanged with this render at a context switch
    windowScrollY, \* offset the module passed to window.scrollTo(0, scrollY)
    fs,          \* output paths that exist in the output directory
    cli          \* the command-line runs: position, counter, chosen path

vars == <<pc, req, format, browser, viewport, initScript, globals, modVars,
          channel, uiShown, doc, metadata, trace, shot, result, error, pg, stderr,
          other, windowScrollY, fs, cli>>

----------------------------------------------------------------------------
(* Bounds of the model *)

MaxPage == 3          \* native unit counts range over 0..MaxPage
MaxTotalHeight == 3900 \* content heights walked by the pagination specification

----------------------------------------------------------------------------
(* JavaScript values *)

\* a record has the property
Has(r, f) == f \in DOMAIN r

\* JS truthiness of a number (0 is falsy; NaN does not occur here)
TruthyNum(n) == n # 0

Max(a, b) == IF a >= b THEN a ELSE b
Min(a, b) == IF a <= b THEN a ELSE b

\* Math.ceil(a / b) for a >= 0, b > 0
CeilDiv(a, b) == (a + b - 1) \div b

\* Names every object inherits from Object.prototype; the `in` operator and
\* property reads see them on any object literal.
ObjectPrototypeKeys ==
    {"constructor", "hasOwnProperty", "isPrototypeOf", "propertyIsEnumerable",
     "toLocaleString", "toString", "valueOf", "__proto__",
     "__defineGetter__", "__defineSetter__", "__lookupGetter__", "__lookupSetter__"}

\* value of an inherited property (a function or the prototype object); it is
\* no format tag and, used as a property key, stringifies to no key of any map
InheritedValue == "[inherited Object.prototype member]"

\* key in obj
JsIn(key, obj) == key \in DOMAIN obj \/ key \in ObjectPrototypeKeys

\* obj[key]; "" stands for undefined (no map below holds an empty own value
\* that must be told apart from undefined, see templateMap.unknown)
JsGet(obj, key) ==
    IF key \in DOMAIN obj THEN obj[key]
    ELSE IF key \in ObjectPrototypeKeys THEN InheritedValue
    ELSE ""

----------------------------------------------------------------------------
(* Format resolver: js/src/types.ts *)

FileFormat ==
    {"pdf", "epub", "docx", "xlsx", "pptx", "md", "html", "csv", "rtf", "ipynb",
     "tex", "code", "url", "mmd", "geojson", "gpx", "unknown"}

MIME_TO_FORMAT ==
    ("application/pdf" :> "pdf") @@
    ("application/epub+zip" :> "epub") @@
    ("application/vnd.openxmlformats-officedocument.wordprocessingml.document" :> "docx") @@
    ("application/vnd.openxmlformats-officedocument.spreadsheetml.sheet" :> "xlsx") @@
    ("application/vnd.openxmlformats-officedocument.presentationml.presentation" :> "pptx") @@
    ("text/markdown" :> "md") @@
    ("text/html" :> "html") @@
    ("text/csv" :> "csv") @@
    ("application/rtf" :> "rtf") @@
    ("text/rtf" :> "rtf") @@
    ("application/x-ipynb+json" :> "ipynb") @@
    ("application/x-tex" :> "tex") @@
    ("text/x-tex" :> "tex") @@
    ("application/geo+json" :> "geojson") @@
    ("application/gpx+xml" :> "gpx")

SLUG_TO_FORMAT ==
    ("pdf" :> "pdf") @@ ("epub" :> "epub") @@ ("docx" :> "docx") @@
    ("xlsx" :> "xlsx") @@ ("pptx" :> "pptx") @@ ("md" :> "md") @@
    ("markdown" :> "md") @@ ("html" :> "html") @@ ("htm" :> "html") @@
    ("csv" :> "csv") @@ ("rtf" :> "rtf") @@ ("ipynb" :> "ipynb") @@
    ("jupyter" :> "ipynb") @@ ("tex" :> "tex") @@ ("latex" :> "tex") @@
    ("code" :> "code") @@ ("url" :> "url") @@ ("mmd" :> "mmd") @@
    ("mermaid" :> "mmd") @@ ("geojson" :> "geojson") @@ ("gpx" :> "gpx")

\* String.prototype.toLowerCase on the identifiers the model draws: the ones
\* below contain upper-case letters, every other one is already lower-case
UpperCased ==
    ("PDF" :> "pdf") @@ ("Markdown" :> "markdown") @@
    ("Application/PDF" :> "application/pdf") @@
    ("valueOf" :> "valueof") @@ ("Unknown" :> "unknown") @@
    (".PDF" :> ".pdf")

toLowerCase(s) == IF s \in DOMAIN UpperCased THEN UpperCased[s] ELSE s

\* identifiers that match nothing in either table: they do not resolve
Unmatched ==
    {"application/x-unknown", "", "unknown", "Unknown", "doc", "text/plain",
     "Application/PDF", "application/json"}

\* identifiers a caller may pass to screenshot()
Identifiers ==
    DOMAIN SLUG_TO_FORMAT \cup DOMAIN MIME_TO_FORMAT \cup Unmatched
        \cup {"PDF", "Markdown", "constructor", "valueOf", "__proto__"}

UnknownFormatError == "Unknown format"

\* resolveFormat: the value returned, or the error thrown
resolveFormat(formatStr) ==
    LET lowerFormat == toLowerCase(formatStr) IN
    IF JsIn(lowerFormat, SLUG_TO_FORMAT)
        THEN [ok |-> TRUE, value |-> JsGet(SLUG_TO_FORMAT, lowerFormat)]
    ELSE IF JsIn(formatStr, MIME_TO_FORMAT)
        THEN [ok |-> TRUE, value |-> JsGet(MIME_TO_FORMAT, formatStr)]
    ELSE [ok |-> FALSE, value |-> UnknownFormatError]

----------------------------------------------------------------------------
(* Module registry: Renderer.getTemplatePath *)

\* the registry as it was when only three modules existed
templateMapEarly ==
    [pdf |-> "templates/pdf.html", epub |-> "templates/epub.html",
     docx |-> "templates/docx.html", unknown |-> ""]

templateMap ==
    [pdf |-> "templates/pdf.html", epub |-> "templates/epub.html",
     docx |-> "templates/docx.html", xlsx |-> "templates/xlsx.html",
     pptx |-> "templates/pptx.html", md |-> "templates/md.html",
     html |-> "templates/html.html", csv |-> "templates/csv.html",
     rtf |-> "templates/rtf.html", ipynb |-> "templates/ipynb.html",
     tex |-> "templates/tex.html", code |-> "templates/code.html",
     url |-> "templates/url.html", mmd |-> "templates/mmd.html",
     geojson |-> "templates/geojson.html", gpx |-> "templates/gpx.html",
     unknown |-> ""]

NoTemplateError == "No template available for format"


\* a lookup that returns whatever the map holds
getTemplatePathUnchecked(fmt) == [ok |-> TRUE, value |-> JsGet(templateMap, fmt)]

\* getTemplatePath: the path returned, or the error thrown when the entry is
\* falsy (undefined or the empty string)
getTemplatePath(fmt) ==
    LET path == JsGet(templateMap, fmt) IN
    IF path = "" THEN [ok |-> FALSE, value |-> NoTemplateError]
    ELSE [ok |-> TRUE, value |-> path]

----------------------------------------------------------------------------
(* Payload transport *)

\* Buffer.toString('base64'): the text as a sequence of base64 digits 0..63,
\* 64 standing for the padding character "="
RECURSIVE Base64(_)
Base64(bytes) ==
    IF Len(bytes) = 0 THEN << >>
    ELSE IF Len(bytes) = 1 THEN
        << bytes[1] \div 4, (bytes[1] % 4) * 16, 64, 64 >>
    ELSE IF Len(bytes) = 2 THEN
        << bytes[1] \div 4, (bytes[1] % 4) * 16 + bytes[2] \div 16,
           (bytes[2] % 16) * 4, 64 >>
    ELSE
        << bytes[1] \div 4, (bytes[1] % 4) * 16 + bytes[2] \div 16,
           (bytes[2] % 16) * 4 + bytes[3] \div 64, bytes[3] % 64 >>
          \o Base64(SubSeq(bytes, 4, Len(bytes)))

\* 'FILE_BASE64_PLACEHOLDER': a text holding "_" (written 65), a character no
\* base64 text contains
FILE_BASE64_PLACEHOLDER == << 65 >>
PAGE_NUMBER_PLACEHOLDER == 1

\* file contents a caller may pass: an empty file, "%PDF", "# a"
Payloads == { << >>, << 37, 80, 68, 70 >>, << 35, 32, 97 >> }

\* requested pages: absent, or an integer in and around the valid range
PageChoices == (-1) .. (MaxPage + 1)

\* the width/height options a caller may pass (absent fields are undefined)
SizeOptions ==
    { [name |-> "sample.py"],
      [name |-> "sample.py", width |-> 1000, height |-> 700],
      [name |-> "sample.py", width |-> 0, height |-> 2000] }

Requests ==
    { [id |-> i, payload |-> p, opts |-> o] :
        i \in Identifiers, p \in Payloads,
        o \in SizeOptions \cup
              { [name |-> "sample.py", page |-> n] : n \in PageChoices } \cup
              { [name |-> "sample.py", width |-> 1000, height |-> 700, page |-> MaxPage + 1] } }

\* destructuring defaults of render(): `page: pageNumber = 1`
OptPage(opts) == IF Has(opts, "page") THEN opts.page ELSE 1

\* width || 800, height || 600
initialWidth(opts) ==
    IF Has(opts, "width") /\ TruthyNum(opts.width) THEN opts.width ELSE 800
initialHeight(opts) ==
    IF Has(opts, "height") /\ TruthyNum(opts.height) THEN opts.height ELSE 600

\* width || 1280, height || 800 of the url branch
webWidth(opts) ==
    IF Has(opts, "width") /\ TruthyNum(opts.width) THEN opts.width ELSE 1280
webHeight(opts) ==
    IF Has(opts, "height") /\ TruthyNum(opts.height) THEN opts.height ELSE 800

deviceScaleFactor == 2

\* an object without properties
EmptyObj == [x \in {} |-> 0]

\* the argument object page.addInitScript is given by injectDataIntoPage
InitScriptArg(fileBase64, pageNumber, fileName) ==
    [fileBase64 |-> fileBase64, pageNum |-> pageNumber, fName |-> fileName]

\* the init script's body: the three assignments to globalThis
RunInitScript(arg) ==
    [fileBase64 |-> arg.fileBase64, pageNumber |-> arg.pageNum, fileName |-> arg.fName]

\* `globalThis.fileBase64 || FILE_BASE64_PLACEHOLDER`: undefined and the empty
\* string are falsy
ReadFileBase64(g) ==
    IF Has(g, "fileBase64") /\ g.fileBase64 # << >>
        THEN g.fileBase64 ELSE FILE_BASE64_PLACEHOLDER

\* `globalThis.pageNumber || PAGE_NUMBER_PLACEHOLDER`
ReadPageNumber(g) ==
    IF Has(g, "pageNumber") /\ TruthyNum(g.pageNumber)
        THEN g.pageNumber ELSE PAGE_NUMBER_PLACEHOLDER

----------------------------------------------------------------------------
(* Renderer modules: the metadata each one computes.                       *)
(* Lengths read from getBoundingClientRect, from a PDF viewport or from an *)
(* inline style are fractional: they are carried in half CSS pixels so     *)
(* that Math.ceil and Math.floor act on them.  scrollHeight, offsetWidth   *)
(* and every metadata field are whole CSS pixels.  The scale field is the  *)
(* fraction <<numerator, denominator>>.                                    *)

CeilHalf(h) == (h + 1) \div 2     \* Math.ceil of h half pixels (h >= 0)
FloorHalf(h) == h \div 2          \* Math.floor of h half pixels (h >= 0)

Meta(w, h, count, number, sc) ==
    [width |-> w, height |-> h, pageCount |-> count, pageNumber |-> number, scale |-> sc]

\* outcomes of a module's render function: the promise resolves with
\* metadata (ui: the file selector was shown) or rejects
Fulfil(m) == [kind |-> "resolved", meta |-> m, ui |-> FALSE]
Provisional(m) == [kind |-> "resolved", meta |-> m, ui |-> TRUE]
NoMeta == [none |-> TRUE]
Reject == [kind |-> "rejected", meta |-> NoMeta, ui |-> FALSE]

\* pseudo-pagination that reports a full viewport for every page
PseudoPaginateFullPages(totalHeight, VIEWPORT_HEIGHT, pageNumber) ==
    LET pageCount == Max(1, CeilDiv(totalHeight, VIEWPORT_HEIGHT))
        targetPage == Max(1, Min(pageNumber, pageCount))
    IN [pageCount |-> pageCount, targetPage |-> targetPage,
        scrollY |-> (targetPage - 1) * VIEWPORT_HEIGHT, pageHeight |-> VIEWPORT_HEIGHT]

\* the pseudo-pagination arithmetic shared by md, html, tex, ipynb, csv, code
PseudoPaginate(totalHeight, VIEWPORT_HEIGHT, pageNumber) ==
    LET pageCount == Max(1, CeilDiv(totalHeight, VIEWPORT_HEIGHT))
        targetPage == Max(1, Min(pageNumber, pageCount))
        scrollY == (targetPage - 1) * VIEWPORT_HEIGHT
        remainingHeight == totalHeight - scrollY
        pageHeight == Min(VIEWPORT_HEIGHT, remainingHeight)
    IN [pageCount |-> pageCount, targetPage |-> targetPage,
        scrollY |-> scrollY, pageHeight |-> pageHeight]


\* a body that reports the requested page number as it was given
renderPseudoUnclamped(VIEWPORT_WIDTH, VIEWPORT_HEIGHT, fileBase64, pageNumber, libOk, totalHeight) ==
    IF fileBase64 = FILE_BASE64_PLACEHOLDER
        THEN Provisional(Meta(VIEWPORT_WIDTH, VIEWPORT_HEIGHT, 1, 1, <<1, 1>>))
    ELSE IF ~libOk THEN Reject
    ELSE LET p == PseudoPaginate(totalHeight, VIEWPORT_HEIGHT, pageNumber) IN
         Fulfil(Meta(VIEWPORT_WIDTH, p.pageHeight, p.pageCount, pageNumber, <<2, 1>>))
             @@ [scroll |-> p.scrollY]

\* body shared by the pseudo-paginated render functions; libOk: every awaited
\* library call (parse, highlight, image load) returned instead of throwing
renderPseudo(VIEWPORT_WIDTH, VIEWPORT_HEIGHT, fileBase64, pageNumber, libOk, totalHeight) ==
    IF fileBase64 = FILE_BASE64_PLACEHOLDER
        THEN Provisional(Meta(VIEWPORT_WIDTH, VIEWPORT_HEIGHT, 1, 1, <<1, 1>>))
    ELSE IF ~libOk THEN Reject
    ELSE LET p == PseudoPaginate(totalHeight, VIEWPORT_HEIGHT, pageNumber) IN
         Fulfil(Meta(VIEWPORT_WIDTH, p.pageHeight, p.pageCount, p.targetPage, <<2, 1>>))
             @@ [scroll |-> p.scrollY]     \* window.scrollTo(0, scrollY)

renderMarkdown(fileBase64, pageNumber, libOk, totalHeight) ==
    renderPseudo(960, 1280, fileBase64, pageNumber, libOk, totalHeight)
renderHTML(fileBase64, pageNumber, libOk, totalHeight) ==
    renderPseudo(960, 1280, fileBase64, pageNumber, libOk, totalHeight)
renderLaTeX(fileBase64, pageNumber, libOk, totalHeight) ==
    renderPseudo(960, 1280, fileBase64, pageNumber, libOk, totalHeight)
renderNotebook(fileBase64, pageNumber, libOk, totalHeight) ==
    renderPseudo(960, 1280, fileBase64, pageNumber, libOk, totalHeight)
renderCSV(fileBase64, pageNumber, libOk, totalHeight) ==
    renderPseudo(1080, 1920, fileBase64, pageNumber, libOk, totalHeight)
renderCode(fileBase64, pageNumber, libOk, totalHeight) ==
    renderPseudo(1080, 1920, fileBase64, pageNumber, libOk, totalHeight)

\* pdf.js getPage(n) fulfils only for an integer 1 <= n <= numPages and
\* rejects with "Invalid page request" otherwise
GetPageOk(n, numPages) == 1 <= n /\ n <= numPages

\* renderPDF; vw2/vh2: the page viewport at scale 1.0, in half pixels
renderPDF(fileBase64, pageNumber, libOk, numPages, vw2, vh2) ==
    IF fileBase64 = FILE_BASE64_PLACEHOLDER
        THEN Provisional(Meta(1920, 1080, 1, 1, <<1, 1>>))
    ELSE IF ~libOk THEN Reject
    ELSE IF ~GetPageOk(pageNumber, numPages) THEN Reject
    ELSE Fulfil(Meta(CeilHalf(vw2), CeilHalf(vh2), numPages, pageNumber, <<1, 1>>))

\* renderPPTX; slides: number of elements matched by the slide selector
renderPPTX(fileBase64, pageNumber, libOk, slides) ==
    IF fileBase64 = FILE_BASE64_PLACEHOLDER
        THEN Provisional(Meta(1920, 1080, 1, 1, <<1, 1>>))
    ELSE IF ~libOk THEN Reject
    ELSE LET baseWidth == 960
             baseHeight == 540
             scale == 2
             pageCount == Max(slides, 1)
             targetPage == Max(1, Min(pageNumber, pageCount))
         IN Fulfil(Meta(baseWidth * scale, baseHeight * scale, pageCount, targetPage, <<2, 1>>))

\* renderXLSX; sheets: workbook.worksheets.length, tw2/th2: the table's
\* bounding rectangle in half pixels.  The resolved object also carries the
\* debug fields tableRect and viewport.
renderXLSX(fileBase64, pageNumber, libOk, sheets, tw2, th2) ==
    IF fileBase64 = FILE_BASE64_PLACEHOLDER
        THEN Provisional(Meta(1280, 960, 1, 1, <<1, 1>>))
    ELSE IF ~libOk THEN Reject
    ELSE LET pageCount == sheets
             targetPage == Max(1, Min(pageNumber, pageCount))
         IN IF targetPage > sheets THEN Reject   \* worksheets[targetPage - 1] undefined
            ELSE Fulfil(Meta(tw2, th2, pageCount, targetPage, <<2, 1>>))

\* renderRTF; rw2/rh2: the container's bounding rectangle in half pixels
renderRTF(fileBase64, pageNumber, libOk, rw2, rh2) ==
    IF fileBase64 = FILE_BASE64_PLACEHOLDER
        THEN Provisional(Meta(1920, 1080, 1, 1, <<1, 1>>))
    ELSE IF ~libOk THEN Reject
    ELSE LET width == Max(rw2 + 160, 800)    \* ceil(max(w + 80, 400) * 2.0)
             height == rh2 + 160             \* ceil((h + 80) * 2.0)
         IN Fulfil(Meta(width, height, 1, pageNumber, <<2, 1>>))

\* renderDOCX; iw2/imh2: the section's inline width and min-height in half
\* points (0: the style is not set), offsetWidth and contentHeight in pixels
renderDOCX(fileBase64, pageNumber, libOk, iw2, imh2, offsetWidth, contentHeight) ==
    IF fileBase64 = FILE_BASE64_PLACEHOLDER
        THEN Provisional(Meta(1920, 1080, 1, 1, <<1, 1>>))
    ELSE IF ~libOk THEN Reject
    ELSE LET w2 == IF iw2 # 0 THEN iw2 ELSE 2 * offsetWidth
             width == w2                                   \* ceil(width * 2.0)
             height == IF imh2 # 0 THEN imh2               \* ceil(height * 2.0)
                       ELSE CeilDiv(w2 * 297, 210)
             \* singlePageHeight = imh2 / 2, or (width / 2) * 297 / 210
             pageCount == IF imh2 # 0 THEN CeilDiv(contentHeight * 2, imh2)
                          ELSE CeilDiv(contentHeight * 420, width * 297)
             targetPage == Max(1, Min(pageNumber, pageCount))
         IN Fulfil(Meta(width, height, pageCount, targetPage, <<2, 1>>))

SetMin(S) == CHOOSE x \in S : \A y \in S : x <= y
SetMax(S) == CHOOSE x \in S : \A y \in S : x >= y

\* tags the EPUB bounds measurement skips
containerTags ==
    {"DIV", "SPAN", "SECTION", "ARTICLE", "MAIN", "HEADER", "FOOTER", "NAV", "ASIDE"}


\* an EPUB measurement that reports the horizontal offset only
renderEPUBClipXOnly(fileBase64, pageNumber, libOk, spineCount, dom) ==
    IF fileBase64 = FILE_BASE64_PLACEHOLDER
        THEN Provisional(Meta(800, 1200, 1, 1, <<2, 1>>))
    ELSE IF ~libOk THEN Reject
    ELSE LET pageCount == IF spineCount # 0 THEN spineCount ELSE 1
             targetPage == Max(1, Min(pageNumber, pageCount))
             counted == { e \in dom.elements :
                            /\ e.right - e.left > 0
                            /\ e.bottom - e.top > 0
                            /\ e.tag \notin containerTags }
             minLeft == SetMin({ e.left : e \in counted })
             minTop == SetMin({ e.top : e \in counted })
             maxRight == SetMax({0} \cup { e.right : e \in counted })
             maxBottom == SetMax({0} \cup { e.bottom : e \in counted })
             scrollHeight == SetMax({2 * dom.bodyScroll, 2 * dom.htmlScroll, maxBottom})
             contentWidth == Max(CeilHalf(maxRight - minLeft), 100)
             contentHeight == Max(CeilHalf(scrollHeight - minTop), 100)
         IN IF dom.present /\ counted # {}
                THEN Fulfil(Meta(contentWidth, contentHeight, pageCount, targetPage, <<2, 1>>)
                             @@ [clipX |-> FloorHalf(minLeft)])
                ELSE Fulfil(Meta(1600, 1080, pageCount, targetPage, <<2, 1>>))

\* renderEPUB; spineCount: spine.items.length, dom: the rendered iframe
\* (present: iframe, body and html exist; elements: tag and rectangle of each
\* element of the body, in half pixels; bodyScroll/htmlScroll: scrollHeight)
renderEPUB(fileBase64, pageNumber, libOk, spineCount, dom) ==
    IF fileBase64 = FILE_BASE64_PLACEHOLDER
        THEN Provisional(Meta(800, 1200, 1, 1, <<2, 1>>))
    ELSE IF ~libOk THEN Reject
    ELSE LET pageCount == IF spineCount # 0 THEN spineCount ELSE 1
             targetPage == Max(1, Min(pageNumber, pageCount))
             counted == { e \in dom.elements :
                            /\ e.right - e.left > 0
                            /\ e.bottom - e.top > 0
                            /\ e.tag \notin containerTags }
             minLeft == SetMin({ e.left : e \in counted })
             minTop == SetMin({ e.top : e \in counted })
             maxRight == SetMax({0} \cup { e.right : e \in counted })
             maxBottom == SetMax({0} \cup { e.bottom : e \in counted })
             scrollHeight == SetMax({2 * dom.bodyScroll, 2 * dom.htmlScroll, maxBottom})
             contentWidth == Max(CeilHalf(maxRight - minLeft), 100)
             contentHeight == Max(CeilHalf(scrollHeight - minTop), 100)
         IN IF dom.present /\ counted # {}
                THEN Fulfil(Meta(contentWidth, contentHeight, pageCount, targetPage, <<2, 1>>)
                             @@ [clipX |-> FloorHalf(minLeft), clipY |-> FloorHalf(minTop)])
                ELSE Fulfil(Meta(1600, 1080, pageCount, targetPage, <<2, 1>>))

\* atob(globalThis.fileBase64) of the modules without module-local copies:
\* an undefined global is converted to the text "undefined", which is no
\* base64 text, and atob throws
AtobGlobalOk(g) == Has(g, "fileBase64")

\* render of mmd.ts; svgFound: mermaid produced an svg element, rw2/rh2 its
\* bounding rectangle in half pixels
renderMermaid(g, libOk, svgFound, rw2, rh2) ==
    IF ~AtobGlobalOk(g) \/ ~libOk \/ ~svgFound THEN Reject
    ELSE LET MAX_WIDTH == 1280
             width == CeilHalf(rw2) + 40
             height == CeilHalf(rh2) + 40
         IN IF width > MAX_WIDTH
                THEN Fulfil(Meta(MAX_WIDTH, CeilDiv(height * MAX_WIDTH, width), 1, 1,
                                  <<MAX_WIDTH, width>>))
                ELSE Fulfil(Meta(width, height, 1, 1, <<1, 1>>))

\* render of the geojson module (fixed 1280x960 map)
renderGeoJSON(g, libOk) ==
    IF ~AtobGlobalOk(g) \/ ~libOk THEN Reject
    ELSE Fulfil(Meta(1280, 960, 1, 1, <<1, 1>>))

\* render of the gpx module (fixed 1920x1080 map)
renderGPX(g, libOk) ==
    IF ~AtobGlobalOk(g) \/ ~libOk THEN Reject
    ELSE Fulfil(Meta(1920, 1080, 1, 1, <<1, 1>>))

----------------------------------------------------------------------------
(* What the modules measure: representative documents *)

\* container.scrollHeight of flowing content
TotalHeights == {40, 700, 1280, 1281, 3000, 3840}

\* PDF page viewports in half pixels: US letter, A4 (595.5 x 842), 1224x1584
PdfViewports == { <<1224, 1584>>, <<1191, 1684>>, <<2448, 3168>> }

\* bounding rectangles in half pixels
Rects == { <<0, 0>>, <<1001, 601>>, <<3000, 2000>> }

\* rendered EPUB chapters
EpubDoms ==
    { [present |-> FALSE, elements |-> {}, bodyScroll |-> 0, htmlScroll |-> 0],
      [present |-> TRUE, bodyScroll |-> 300, htmlScroll |-> 300,
       elements |-> { [tag |-> "DIV", left |-> 0, top |-> 0, right |-> 3200, bottom |-> 600] }],
      [present |-> TRUE, bodyScroll |-> 1831, htmlScroll |-> 1800,
       elements |-> { [tag |-> "DIV", left |-> 0, top |-> 0, right |-> 3200, bottom |-> 3662],
                      [tag |-> "P", left |-> 266, top |-> 0, right |-> 2934, bottom |-> 3000],
                      [tag |-> "IMG", left |-> 400, top |-> 100, right |-> 400, bottom |-> 100] }],
      [present |-> TRUE, bodyScroll |-> 40, htmlScroll |-> 40,
       elements |-> { [tag |-> "IMG", left |-> 21, top |-> 11, right |-> 121, bottom |-> 91] }] }

\* DOCX sections: <<inline width, inline min-height, offsetWidth, scrollHeight>>
DocxSections == { <<1224, 1584, 816, 1056>>, <<1224, 1584, 816, 2400>>,
                  <<0, 0, 816, 2500>>, <<1191, 0, 794, 900>> }

\* documents a module may be given: ok (every awaited library call returns
\* instead of throwing) and what the module then measures
ModuleDocs(tag) ==
    CASE tag \in {"md", "html", "tex", "ipynb", "csv", "code"} ->
              { [ok |-> ok, totalHeight |-> t] : ok \in BOOLEAN, t \in TotalHeights }
      [] tag = "pdf" ->
              { [ok |-> ok, numPages |-> n, vw |-> v[1], vh |-> v[2]] :
                  ok \in BOOLEAN, n \in 1..MaxPage, v \in PdfViewports }
      [] tag = "pptx" ->
              { [ok |-> ok, slides |-> n] : ok \in BOOLEAN, n \in 0..MaxPage }
      [] tag = "xlsx" ->
              { [ok |-> ok, sheets |-> n, rect |-> r] :
                  ok \in BOOLEAN, n \in 0..MaxPage, r \in Rects \ {<<0, 0>>} }
      [] tag = "rtf" ->
              { [ok |-> ok, rect |-> r] : ok \in BOOLEAN, r \in Rects }
      [] tag = "docx" ->
              { [ok |-> ok, section |-> d] : ok \in BOOLEAN, d \in DocxSections }
      [] tag = "epub" ->
              { [ok |-> ok, spine |-> n, dom |-> d] :
                  ok \in BOOLEAN, n \in 0..MaxPage, d \in EpubDoms }
      [] tag = "mmd" ->
              { [ok |-> ok, svg |-> f, rect |-> r] :
                  ok \in BOOLEAN, f \in BOOLEAN, r \in Rects }
      [] tag \in {"geojson", "gpx"} -> { [ok |-> ok] : ok \in BOOLEAN }
      [] OTHER -> {}

\* the render function of the module registered for a tag, applied to the
\* module's variables mv, the globals g and the document d
ModuleRender(tag, mv, g, d) ==
    CASE tag = "md" -> renderMarkdown(mv.fileBase64, mv.pageNumber, d.ok, d.totalHeight)
      [] tag = "html" -> renderHTML(mv.fileBase64, mv.pageNumber, d.ok, d.totalHeight)
      [] tag = "tex" -> renderLaTeX(mv.fileBase64, mv.pageNumber, d.ok, d.totalHeight)
      [] tag = "ipynb" -> renderNotebook(mv.fileBase64, mv.pageNumber, d.ok, d.totalHeight)
      [] tag = "csv" -> renderCSV(mv.fileBase64, mv.pageNumber, d.ok, d.totalHeight)
      [] tag = "code" -> renderCode(mv.fileBase64, mv.pageNumber, d.ok, d.totalHeight)
      [] tag = "pdf" -> renderPDF(mv.fileBase64, mv.pageNumber, d.ok, d.numPages, d.vw, d.vh)
      [] tag = "pptx" -> renderPPTX(mv.fileBase64, mv.pageNumber, d.ok, d.slides)
      [] tag = "xlsx" ->
            renderXLSX(mv.fileBase64, mv.pageNumber, d.ok, d.sheets, d.rect[1], d.rect[2])
      [] tag = "rtf" -> renderRTF(mv.fileBase64, mv.pageNumber, d.ok, d.rect[1], d.rect[2])
      [] tag = "docx" ->
            renderDOCX(mv.fileBase64, mv.pageNumber, d.ok,
                       d.section[1], d.section[2], d.section[3], d.section[4])
      [] tag = "epub" -> renderEPUB(mv.fileBase64, mv.pageNumber, d.ok, d.spine, d.dom)
      [] tag = "mmd" -> renderMermaid(g, d.ok, d.svg, d.rect[1], d.rect[2])
      [] tag = "geojson" -> renderGeoJSON(g, d.ok)
      [] tag = "gpx" -> renderGPX(g, d.ok)

----------------------------------------------------------------------------
(* The capture driver: screenshot() and Renderer.render *)

NoScript == [none |-> TRUE]
NoShot == [kind |-> "none", taken |-> FALSE, clip |-> << >>, viewport |-> <<0, 0>>]
NoResult == [none |-> TRUE]
NoDoc == [none |-> TRUE]
NoError == [at |-> "", msg |-> ""]
NoOther == [none |-> TRUE]
NoCli == << >>
NoWalk == [tag |-> "", total |-> 0, page |-> 0, count |-> 0, sum |-> 0, last |-> 0]

\* modules that read globalThis.fileBase64 directly instead of copying the
\* globals into module variables with a placeholder fallback
DirectReaders == {"mmd", "geojson", "gpx"}

\* program order in which the template is loaded before the data is injected
StepAfterInjectLate(step, fmt) ==
    CASE step = "launch" -> "newPage"
      [] step = "newPage" -> IF fmt = "url" THEN "urlRead" ELSE "readFile"
      [] step = "readFile" -> "lookup"
      [] step = "lookup" -> "goto"
      [] step = "goto" -> "inject"
      [] step = "inject" -> "evaluate"
      [] step = "evaluate" -> "resize"
      [] step = "resize" -> "settle"
      [] step = "settle" -> "screenshot"
      [] step = "screenshot" -> "close"
      [] step = "urlRead" -> "urlViewport"
      [] step = "urlViewport" -> "urlGoto"
      [] step = "urlGoto" -> "urlShot"
      [] step = "urlShot" -> "urlClose"
      [] OTHER -> "done"

\* program order of render(): the statement that follows each await
StepAfter(step, fmt) ==
    CASE step = "launch" -> "newPage"
      [] step = "newPage" -> IF fmt = "url" THEN "urlRead" ELSE "readFile"
      [] step = "readFile" -> "inject"
      [] step = "inject" -> "lookup"
      [] step = "lookup" -> "goto"
      [] step = "goto" -> "evaluate"
      [] step = "evaluate" -> "resize"
      [] step = "resize" -> "settle"
      [] step = "settle" -> "screenshot"
      [] step = "screenshot" -> "close"
      [] step = "urlRead" -> "urlViewport"
      [] step = "urlViewport" -> "urlGoto"
      [] step = "urlGoto" -> "urlShot"
      [] step = "urlShot" -> "urlClose"
      [] OTHER -> "done"

\* awaits inside the try block whose external operation may throw
\* (browser.close() is taken to complete)
Fallible ==
    {"newPage", "readFile", "inject", "goto", "evaluate", "resize", "settle",
     "screenshot", "urlRead", "urlViewport", "urlGoto", "urlShot"}

\* a capture strategy test on truthiness: if (clipX && clipY)
UseClipTruthy(m) ==
    /\ Has(m, "clipX") /\ Has(m, "clipY")
    /\ TruthyNum(m.clipX) /\ TruthyNum(m.clipY)

\* the capture strategy test: clipX !== undefined && clipY !== undefined
UseClip(m) == Has(m, "clipX") /\ Has(m, "clipY")


\* a viewport sized in device pixels of the module's own scale
ViewportForScaled(m, opts) ==
    LET k(n) == (n * m.scale[1]) \div m.scale[2] IN
    IF UseClip(m)
        THEN << Max(k(m.clipX + m.width), initialWidth(opts)),
                Max(k(m.clipY + m.height), initialHeight(opts)) >>
        ELSE << k(m.width), k(m.height) >>

\* the size passed to page.setViewportSize once the metadata is known: large
\* enough to contain the clip rectangle on the clip path, the metadata's
\* dimensions otherwise
ViewportFor(m, opts) ==
    IF UseClip(m)
        THEN << Max(m.clipX + m.width, initialWidth(opts)),
                Max(m.clipY + m.height, initialHeight(opts)) >>
        ELSE << m.width, m.height >>


\* a clip rectangle of the metadata's size taken from the page origin
ClipRectFromOrigin(m) == << 0, 0, m.width, m.height >>

\* clip: { x: clipX, y: clipY, width, height } of the clipped screenshot
ClipRect(m) == << m.clipX, m.clipY, m.width, m.height >>


\* the module's top-level statements: the modules with a manual mode copy the
\* globals into their own variables, falling back to the placeholders
ModuleStart(tag, g) ==
    IF tag \in DirectReaders THEN EmptyObj
    ELSE [fileBase64 |-> ReadFileBase64(g), pageNumber |-> ReadPageNumber(g)]


\* an evaluation that awaits the channel without testing that it exists
EvaluateErrorUntested(ch) == "module rejected"

\* what the evaluation throws: if (!renderComplete) throw new Error(...),
\* otherwise the rejection of the awaited promise
EvaluateError(ch) ==
    IF ch = "unset" THEN "window.renderComplete not found" ELSE "module rejected"

Advance(step) ==
    /\ pc' = StepAfter(step, format)
    /\ trace' = Append(trace, step)

Init ==
    /\ pc = "start"
    /\ req \in Requests
    /\ format = ""
    /\ browser = "none"
    /\ viewport = <<0, 0>>
    /\ initScript = NoScript
    /\ globals = EmptyObj
    /\ modVars = EmptyObj
    /\ channel = "unset"
    /\ uiShown = FALSE
    /\ doc = NoDoc
    /\ metadata = NoMeta
    /\ trace = << >>
    /\ shot = NoShot
    /\ result = NoResult
    /\ error = NoError
    /\ pg = NoWalk
    /\ stderr = << >>
    /\ other = NoOther
    /\ windowScrollY = 0
    /\ fs = {}
    /\ cli = NoCli

\* screenshot(): resolveFormat(inputFormat), then new Renderer().render(...)
StartScreenshot ==
    /\ pc = "start"
    /\ LET r == resolveFormat(req.id) IN
       IF r.ok
           THEN /\ format' = r.value
                /\ pc' = "launch"
                /\ error' = error
           ELSE /\ format' = format
                /\ pc' = "failed"
                /\ error' = [at |-> "resolve", msg |-> r.value]
    /\ trace' = Append(trace, "resolve")
    /\ UNCHANGED <<req, browser, viewport, initScript, globals, modVars, channel,
                   uiShown, doc, metadata, shot, result, pg,
                   stderr, other, windowScrollY, fs, cli>>

\* chromium.launch(), before the try block
Launch ==
    /\ pc = "launch"
    /\ \/ /\ browser' = "open"
          /\ Advance("launch")
          /\ error' = error
       \/ /\ browser' = browser
          /\ pc' = "failed"
          /\ trace' = Append(trace, "launch")
          /\ error' = [at |-> "launch", msg |-> "launch failed"]
    /\ UNCHANGED <<req, format, viewport, initScript, globals, modVars, channel,
                   uiShown, doc, metadata, shot, result, pg,
                   stderr, other, windowScrollY, fs, cli>>

\* browser.newPage({viewport: {initialWidth, initialHeight}, deviceScaleFactor})
NewPage ==
    /\ pc = "newPage"
    /\ viewport' = <<initialWidth(req.opts), initialHeight(req.opts)>>
    /\ Advance("newPage")
    /\ UNCHANGED <<req, format, browser, initScript, globals, modVars, channel,
                   uiShown, doc, metadata, shot, result, error, pg,
                   stderr, other, windowScrollY, fs, cli>>

\* readFile(inputPath) and toString('base64')
ReadFile ==
    /\ pc = "readFile"
    /\ Advance("readFile")
    /\ UNCHANGED <<req, format, browser, viewport, initScript, globals, modVars,
                   channel, uiShown, doc, metadata, shot, result, error, pg,
                   stderr, other, windowScrollY, fs, cli>>

\* injectDataIntoPage: page.addInitScript registers the script for every
\* document the page loads from now on
Inject ==
    /\ pc = "inject"
    /\ initScript' = InitScriptArg(Base64(req.payload), OptPage(req.opts), req.opts.name)
    /\ Advance("inject")
    /\ UNCHANGED <<req, format, browser, viewport, globals, modVars, channel,
                   uiShown, doc, metadata, shot, result, error, pg,
                   stderr, other, windowScrollY, fs, cli>>

\* getTemplatePath(format); a throw is caught by render's catch block
Lookup ==
    /\ pc = "lookup"
    /\ LET t == getTemplatePath(format) IN
       IF t.ok
           THEN Advance("lookup") /\ error' = error
           ELSE /\ pc' = "catch"
                /\ trace' = Append(trace, "lookup")
                /\ error' = [at |-> "lookup", msg |-> t.value]
    /\ UNCHANGED <<req, format, browser, viewport, initScript, globals, modVars,
                   channel, uiShown, doc, metadata, shot, result, pg,
                   stderr, other, windowScrollY, fs, cli>>

\* page.goto(template): the new document runs the registered init script,
\* then the module script, which reads the globals and assigns
\* window.renderComplete synchronously (loaded = FALSE: the script did not
\* run, the channel is never assigned)
Goto ==
    /\ pc = "goto"
    /\ \E loaded \in BOOLEAN :
        LET g == IF initScript = NoScript THEN EmptyObj ELSE RunInitScript(initScript) IN
        /\ globals' = g
        /\ modVars' = IF loaded THEN ModuleStart(format, g) ELSE EmptyObj
        /\ channel' = IF loaded THEN "pending" ELSE "unset"
    /\ Advance("goto")
    /\ UNCHANGED <<req, format, browser, viewport, initScript, uiShown, doc, metadata,
                   shot, result, error, pg,
                   stderr, other, windowScrollY, fs, cli>>

\* the module's render function settles window.renderComplete
ModuleSettle ==
    /\ browser = "open"
    /\ channel = "pending"
    /\ \E d \in ModuleDocs(format) :
        LET o == ModuleRender(format, modVars, globals, d) IN
        /\ doc' = d
        /\ channel' = o.kind
        /\ metadata' = o.meta
        /\ uiShown' = o.ui
        /\ windowScrollY' = IF Has(o, "scroll") THEN o.scroll ELSE windowScrollY
    /\ UNCHANGED <<pc, req, format, browser, viewport, initScript, globals, modVars,
                   trace, shot, result, error, pg,
                   stderr, other, fs, cli>>


\* an evaluate that returns window.renderComplete without awaiting it
EvaluateUnawaited ==
    /\ pc = "evaluate"
    /\ IF channel \in {"resolved", "pending"}
           THEN Advance("evaluate") /\ error' = error
           ELSE /\ pc' = "catch"
                /\ trace' = Append(trace, "evaluate")
                /\ error' = [at |-> "evaluate",
                             msg |-> IF channel = "unset"
                                         THEN "window.renderComplete not found"
                                         ELSE "module rejected"]
    /\ UNCHANGED <<req, format, browser, viewport, initScript, globals, modVars,
                   channel, uiShown, doc, metadata, shot, result, pg,
                   stderr, other, windowScrollY, fs, cli>>

\* page.evaluate(async () => await renderComplete): throws when the channel
\* was never assigned or rejects, returns the metadata once it resolves
Evaluate ==
    /\ pc = "evaluate"
    /\ channel # "pending"
    /\ IF channel = "resolved"
           THEN Advance("evaluate") /\ error' = error
           ELSE /\ pc' = "catch"
                /\ trace' = Append(trace, "evaluate")
                /\ error' = [at |-> "evaluate", msg |-> EvaluateError(channel)]
    /\ UNCHANGED <<req, format, browser, viewport, initScript, globals, modVars,
                   channel, uiShown, doc, metadata, shot, result, pg,
                   stderr, other, windowScrollY, fs, cli>>


\* a resize that never makes the viewport smaller than the page was opened with
ResizeKeepInitial ==
    /\ pc = "resize"
    /\ LET v == ViewportFor(metadata, req.opts) IN
       viewport' = << Max(v[1], initialWidth(req.opts)), Max(v[2], initialHeight(req.opts)) >>
    /\ shot' = [shot EXCEPT !.kind = IF UseClip(metadata) THEN "clip" ELSE "viewport"]
    /\ Advance("resize")
    /\ UNCHANGED <<req, format, browser, initScript, globals, modVars, channel,
                   uiShown, doc, metadata, result, error, pg,
                   stderr, other, windowScrollY, fs, cli>>

\* page.setViewportSize of the chosen capture strategy
Resize ==
    /\ pc = "resize"
    /\ viewport' = ViewportFor(metadata, req.opts)
    /\ shot' = [shot EXCEPT !.kind = IF UseClip(metadata) THEN "clip" ELSE "viewport"]
    /\ Advance("resize")
    /\ UNCHANGED <<req, format, browser, initScript, globals, modVars, channel,
                   uiShown, doc, metadata, result, error, pg,
                   stderr, other, windowScrollY, fs, cli>>

\* page.waitForTimeout(100)
Settle ==
    /\ pc = "settle"
    /\ Advance("settle")
    /\ UNCHANGED <<req, format, browser, viewport, initScript, globals, modVars,
                   channel, uiShown, doc, metadata, shot, result, error, pg,
                   stderr, other, windowScrollY, fs, cli>>

\* page.screenshot, clipped on the clip path
Screenshot ==
    /\ pc = "screenshot"
    /\ shot' = [shot EXCEPT
                  !.taken = TRUE,
                  !.viewport = viewport,
                  !.clip = IF shot.kind = "clip" THEN ClipRect(metadata) ELSE << >>]
    /\ Advance("screenshot")
    /\ UNCHANGED <<req, format, browser, viewport, initScript, globals, modVars,
                   channel, uiShown, doc, metadata, result, error, pg,
                   stderr, other, windowScrollY, fs, cli>>

\* a result sized by the scale the module reports
ActualSizeByModuleScale(m) ==
    [width |-> (m.width * m.scale[1]) \div m.scale[2],
     height |-> (m.height * m.scale[1]) \div m.scale[2]]

\* "Actual image size is viewport * deviceScaleFactor"
ActualSize(m) ==
    [width |-> m.width * deviceScaleFactor, height |-> m.height * deviceScaleFactor]


\* a driver that keeps one browser for all renders and closes it when a
\* render ends
CloseShared ==
    /\ pc = "close"
    /\ browser' = "closed"
    /\ result' = ActualSize(metadata)
    /\ Advance("close")
    /\ other' = IF Has(other, "browser") THEN [other EXCEPT !.browser = "closed"]
                ELSE other
    /\ UNCHANGED <<req, format, viewport, initScript, globals, modVars, channel,
                   uiShown, doc, metadata, shot, error, pg, stderr, windowScrollY, fs, cli>>

\* browser.close() and the returned ScreenshotResult
Close ==
    /\ pc = "close"
    /\ browser' = "closed"
    /\ result' = ActualSize(metadata)
    /\ Advance("close")
    /\ UNCHANGED <<req, format, viewport, initScript, globals, modVars, channel,
                   uiShown, doc, metadata, shot, error, pg,
                   stderr, other, windowScrollY, fs, cli>>

\* url branch: readFile(inputPath).toString('utf-8').trim()
UrlRead ==
    /\ pc = "urlRead"
    /\ Advance("urlRead")
    /\ UNCHANGED <<req, format, browser, viewport, initScript, globals, modVars,
                   channel, uiShown, doc, metadata, shot, result, error, pg,
                   stderr, other, windowScrollY, fs, cli>>


\* a url branch that keeps the viewport the page was opened with
UrlViewportSkipped ==
    /\ pc = "urlViewport"
    /\ viewport' = viewport
    /\ Advance("urlViewport")
    /\ UNCHANGED <<req, format, browser, initScript, globals, modVars, channel,
                   uiShown, doc, metadata, shot, result, error, pg,
                   stderr, other, windowScrollY, fs, cli>>

\* url branch: page.setViewportSize({webWidth, webHeight})
UrlViewport ==
    /\ pc = "urlViewport"
    /\ viewport' = <<webWidth(req.opts), webHeight(req.opts)>>
    /\ Advance("urlViewport")
    /\ UNCHANGED <<req, format, browser, initScript, globals, modVars, channel,
                   uiShown, doc, metadata, shot, result, error, pg,
                   stderr, other, windowScrollY, fs, cli>>

\* url branch: page.goto(url, {waitUntil: 'networkidle'})
UrlGoto ==
    /\ pc = "urlGoto"
    /\ Advance("urlGoto")
    /\ UNCHANGED <<req, format, browser, viewport, initScript, globals, modVars,
                   channel, uiShown, doc, metadata, shot, result, error, pg,
                   stderr, other, windowScrollY, fs, cli>>

\* url branch: page.screenshot({fullPage: false})
UrlShot ==
    /\ pc = "urlShot"
    /\ shot' = [kind |-> "viewport", taken |-> TRUE, clip |-> << >>, viewport |-> viewport]
    /\ Advance("urlShot")
    /\ UNCHANGED <<req, format, browser, viewport, initScript, globals, modVars,
                   channel, uiShown, doc, metadata, result, error, pg,
                   stderr, other, windowScrollY, fs, cli>>

\* url branch: browser.close() and the returned ScreenshotResult
UrlClose ==
    /\ pc = "urlClose"
    /\ browser' = "closed"
    /\ result' = [width |-> webWidth(req.opts) * deviceScaleFactor,
                  height |-> webHeight(req.opts) * deviceScaleFactor]
    /\ Advance("urlClose")
    /\ UNCHANGED <<req, format, viewport, initScript, globals, modVars, channel,
                   uiShown, doc, metadata, shot, error, pg,
                   stderr, other, windowScrollY, fs, cli>>

\* an awaited browser or file-system operation inside the try block throws
Throw ==
    /\ pc \in Fallible
    /\ pc' = "catch"
    /\ trace' = Append(trace, pc)
    /\ error' = [at |-> pc, msg |-> "operation failed"]
    /\ UNCHANGED <<req, format, browser, viewport, initScript, globals, modVars,
                   channel, uiShown, doc, metadata, shot, result, pg,
                   stderr, other, windowScrollY, fs, cli>>

\* a catch block that rethrows without closing the browser
CatchLeaky ==
    /\ pc = "catch"
    /\ pc' = "failed"
    /\ trace' = Append(trace, "catch")
    /\ UNCHANGED <<req, format, browser, viewport, initScript, globals, modVars, channel,
                   uiShown, doc, metadata, shot, result, error, pg,
                   stderr, other, windowScrollY, fs, cli>>

\* catch (error) { await browser.close(); throw error; }
Catch ==
    /\ pc = "catch"
    /\ browser' = "closed"
    /\ pc' = "failed"
    /\ trace' = Append(trace, "catch")
    /\ UNCHANGED <<req, format, viewport, initScript, globals, modVars, channel,
                   uiShown, doc, metadata, shot, result, error, pg,
                   stderr, other, windowScrollY, fs, cli>>


----------------------------------------------------------------------------
(* The command line: what its catch block prints for a failed render.     *)
(* Texts are sequences of fragments, cut so that each text the code        *)
(* searches for is a run of whole fragments.                               *)

\* String.prototype.includes
Includes(text, needle) ==
    \E i \in 1..(Len(text) - Len(needle) + 1) :
        SubSeq(text, i, i + Len(needle) - 1) = needle

\* message of the error a rejected completion channel carries
RejectionMessage ==
    IF format = "pdf" /\ doc.ok /\ ~GetPageOk(modVars.pageNumber, doc.numPages)
        THEN << "Invalid ", "page", " request." >>
    ELSE IF format = "xlsx" /\ doc.ok
        THEN << "Worksheet ", "1", " not found" >>
    ELSE << "document could not be rendered" >>

\* the browser library names the failed call at the head of the message
CallName(at) ==
    CASE at = "launch" -> << "browserType", ".", "launch" >>
      [] at = "newPage" -> << "browser", ".", "newPage" >>
      [] at = "inject" -> << "page", ".", "addInitScript" >>
      [] at \in {"goto", "urlGoto"} -> << "page", ".", "goto" >>
      [] at = "evaluate" -> << "page", ".", "evaluate" >>
      [] at \in {"resize", "urlViewport"} -> << "page", ".", "setViewportSize" >>
      [] at = "settle" -> << "page", ".", "waitForTimeout" >>
      [] at \in {"screenshot", "urlShot"} -> << "page", ".", "screenshot" >>
      [] OTHER -> << >>

\* err.message of the error screenshot() throws
ErrorMessage ==
    CASE error.at = "resolve" ->
            << "Unknown format", ": ", req.id,
               ". Use a slug (e.g., 'pdf') or MIME type (e.g., 'application/pdf')" >>
      [] error.at = "lookup" ->
            << "No template available", " for format: ", format >>
      [] error.at \in {"readFile", "urlRead"} ->
            << "ENOENT: no such file or directory" >>
      [] error.at = "evaluate" ->
            CallName("evaluate") \o << ": ", "Error: " >> \o
                (IF channel = "rejected" THEN RejectionMessage
                 ELSE << "window.renderComplete not found" >>)
      [] OTHER -> CallName(error.at) \o << ": ", error.msg >>

InvalidPageLine == << "Error: ", "Invalid page number or page not found" >>
NotSupportedLine == << "Error: ", "Format not yet supported" >>

\* the line console.error prints
CliMessage(message) ==
    IF Includes(message, << "Unknown format" >>) THEN << "Error: " >> \o message
    ELSE IF Includes(message, << "No template available" >>) THEN NotSupportedLine
    ELSE IF Includes(message, << "page" >>) THEN InvalidPageLine
    ELSE << "Error: " >> \o message

\* catch (error) of the command's action: print the line, process.exit(1)
CliCatch ==
    /\ pc = "failed"
    /\ pc' = "exit"
    /\ stderr' = CliMessage(ErrorMessage)
    /\ UNCHANGED <<req, format, browser, viewport, initScript, globals, modVars,
                   channel, uiShown, doc, metadata, trace, shot, result, error, pg,
                   other, windowScrollY, fs, cli>>

Next ==
    \/ StartScreenshot \/ Launch \/ NewPage \/ ReadFile \/ Inject \/ Lookup \/ Goto
    \/ ModuleSettle \/ Evaluate \/ Resize \/ Settle \/ Screenshot \/ Close
    \/ UrlRead \/ UrlViewport \/ UrlGoto \/ UrlShot \/ UrlClose
    \/ Throw \/ Catch \/ CliCatch


\* the driver's own steps: once the awaited operation has completed, the
\* continuation runs
DriverStep ==
    \/ StartScreenshot \/ Launch \/ NewPage \/ ReadFile \/ Inject \/ Lookup \/ Goto
    \/ Evaluate \/ Resize \/ Settle \/ Screenshot \/ Close
    \/ UrlRead \/ UrlViewport \/ UrlGoto \/ UrlShot \/ UrlClose
    \/ Catch \/ CliCatch

Spec == Init /\ [][Next]_vars

\* a module on the placeholder payload returns without awaiting anything
SentinelSettle ==
    /\ Has(modVars, "fileBase64") /\ modVars.fileBase64 = FILE_BASE64_PLACEHOLDER
    /\ ModuleSettle

\* Every continuation of the driver eventually runs, and a module in manual
\* mode settles at once.  Nothing obliges the promise of a module that
\* renders a document to settle (a decoding library or a map's load event
\* may never complete), and no awaited operation is obliged to throw.
SpecLive == Init /\ [][Next]_vars /\ WF_vars(DriverStep) /\ WF_vars(SentinelSettle)

----------------------------------------------------------------------------
(* Walking the pages of one flowing document: the same content is rendered *)
(* once per page number, as repeated renders of one file do                *)

PseudoModules == {"md", "html", "tex", "ipynb", "csv", "code"}

WalkRequest == [id |-> "md", payload |-> << 35, 32, 97 >>, opts |-> [name |-> "sample.py"]]

InitPages ==
    /\ pc = "walk"
    /\ req = WalkRequest
    /\ format = ""
    /\ browser = "none"
    /\ viewport = <<0, 0>>
    /\ initScript = NoScript
    /\ globals = EmptyObj
    /\ modVars = EmptyObj
    /\ channel = "unset"
    /\ uiShown = FALSE
    /\ doc = NoDoc
    /\ metadata = NoMeta
    /\ trace = << >>
    /\ shot = NoShot
    /\ result = NoResult
    /\ error = NoError
    /\ pg \in { [tag |-> t, total |-> h, page |-> 0, count |-> 0, sum |-> 0, last |-> 0] :
                  t \in PseudoModules, h \in 1..MaxTotalHeight }
    /\ stderr = << >>
    /\ other = NoOther
    /\ windowScrollY = 0
    /\ fs = {}
    /\ cli = NoCli

\* one render of the document with the next page number injected
RenderPage ==
    /\ pc = "walk"
    /\ pg.page = 0 \/ pg.page < pg.count
    /\ LET g == RunInitScript(InitScriptArg(Base64(req.payload), pg.page + 1, req.opts.name))
           mv == [fileBase64 |-> ReadFileBase64(g), pageNumber |-> ReadPageNumber(g)]
           o == ModuleRender(pg.tag, mv, g, [ok |-> TRUE, totalHeight |-> pg.total])
       IN pg' = [pg EXCEPT !.page = o.meta.pageNumber,
                           !.count = o.meta.pageCount,
                           !.sum = pg.sum + o.meta.height,
                           !.last = o.meta.height]
    /\ UNCHANGED <<pc, req, format, browser, viewport, initScript, globals, modVars,
                   channel, uiShown, doc, metadata, trace, shot, result, error,
                   stderr, other, windowScrollY, fs, cli>>

NextPages == RenderPage

SpecPages == InitPages /\ [][NextPages]_vars

----------------------------------------------------------------------------
(* Properties *)

Terminal == {"done", "failed", "exit"}

\* C1: once render has returned or thrown, the browser launched for it is
\* closed, on the success path and after a failure at any await of the try
\* block; the only terminal states without a closed browser are those in
\* which no browser was ever launched
C1_BrowserClosedAtEnd ==
    pc \in Terminal =>
        \/ browser = "closed"
        \/ browser = "none" /\ error.at \in {"resolve", "launch"}

C1_Witness ==
    /\ pc = "failed" /\ error.at = "screenshot" /\ browser = "closed"
    /\ shot.kind = "clip"

\* C2: whenever the module script has started (the completion channel is
\* assigned), the globals of its document hold the payload, the page
\* selector and the file name the driver injected
C2_InjectedBeforeModuleRuns ==
    channel # "unset" =>
        /\ Has(globals, "fileBase64") /\ Has(globals, "pageNumber")
        /\ globals.fileBase64 = Base64(req.payload)
        /\ globals.pageNumber = OptPage(req.opts)
        /\ globals.fileName = req.opts.name

C2_Witness ==
    /\ channel = "pending" /\ pc = "evaluate"
    /\ Has(globals, "fileBase64") /\ globals.fileBase64 = << 9, 21, 1, 4, 17, 32, 64, 64 >>
    /\ globals.pageNumber = 2

\* C3: the driver takes the clip path exactly when the metadata carries
\* clipX and clipY, whatever the tag, the options and the scale are
C3_StrategyFollowsShape ==
    (format # "url" /\ shot.kind # "none") =>
        (shot.kind = "clip" <=> ({"clipX", "clipY"} \subseteq DOMAIN metadata))

C3_Witness ==
    /\ shot.taken /\ shot.kind = "clip" /\ shot.clip[2] = 0
    /\ Has(req.opts, "width")

\* what the screenshot captured, in CSS pixels: the clip rectangle on the
\* clip path, the viewport otherwise
CapturedSize ==
    IF shot.kind = "clip" THEN <<shot.clip[3], shot.clip[4]>> ELSE shot.viewport

\* C4: a successful render reports the captured CSS size times 2, and for a
\* module-based render the captured size is the metadata's width and height
C4_ResultIsCapturedTimesScale ==
    pc = "done" =>
        /\ result.width = 2 * CapturedSize[1]
        /\ result.height = 2 * CapturedSize[2]
        /\ format # "url" => CapturedSize = <<metadata.width, metadata.height>>

C4_Witness ==
    /\ pc = "done" /\ format = "pdf"
    /\ metadata.width = 1224 /\ metadata.height = 1584
    /\ result.width = 2448 /\ result.height = 3168
    /\ Has(req.opts, "width")

NativePaged == {"pdf", "xlsx", "pptx", "epub"}

\* number of pages, sheets, slides or chapters of the measured document
UnitCount ==
    CASE format = "pdf" -> doc.numPages
      [] format = "xlsx" -> doc.sheets
      [] format = "pptx" -> IF doc.slides > 0 THEN doc.slides ELSE 1
      [] format = "epub" -> IF doc.spine > 0 THEN doc.spine ELSE 1
      [] format \in {"csv", "code"} ->
            IF doc.totalHeight > 0 THEN (doc.totalHeight + 1919) \div 1920 ELSE 1
      [] OTHER ->
            IF doc.totalHeight > 0 THEN (doc.totalHeight + 1279) \div 1280 ELSE 1

Clamp(n, lo, hi) == IF n < lo THEN lo ELSE IF n > hi THEN hi ELSE n

\* the module ran in automated mode on a document whose decoding succeeded
DecodedRun ==
    /\ channel \in {"resolved", "rejected"}
    /\ format \in NativePaged \cup PseudoModules
    /\ modVars.fileBase64 # FILE_BASE64_PLACEHOLDER
    /\ doc.ok

\* C5: a page request outside [1, pageCount] is clamped by every native-paged
\* and every pseudo-paginated module, which resolves metadata for the
\* nearest valid page instead of rejecting
C5_OutOfRangePageIsClamped ==
    (DecodedRun /\ UnitCount >= 1 /\ OptPage(req.opts) \notin 1..UnitCount) =>
        /\ channel = "resolved"
        /\ metadata.pageNumber = Clamp(OptPage(req.opts), 1, UnitCount)

C7_MetadataInvariant ==
    channel = "resolved" =>
        /\ 1 <= metadata.pageNumber /\ metadata.pageNumber <= metadata.pageCount
        /\ metadata.width > 0 /\ metadata.height > 0

\* C8: the completion channel of a module never rejects
C8_ChannelNeverRejects == channel # "rejected"

\* the identifier is on the whitelist: a slug (compared in lower case) or a
\* MIME type
Whitelisted(id) ==
    toLowerCase(id) \in DOMAIN SLUG_TO_FORMAT \/ id \in DOMAIN MIME_TO_FORMAT

\* C9: for an identifier that is not on the whitelist, screenshot() fails
\* with the unknown-format error and no browser ever exists
C9_NoBrowserForUnknownFormat ==
    ~Whitelisted(req.id) =>
        /\ browser = "none"
        /\ pc \in {"start", "failed", "exit", "walk"}
        /\ pc \in {"failed", "exit"} => error.msg = UnknownFormatError

\* C10: every format tag resolveFormat returns has a non-empty template in
\* the registry, and the lookup does not throw
C10_RegistryComplete ==
    (pc # "start" /\ format \in FileFormat) =>
        /\ getTemplatePath(format).ok
        /\ getTemplatePath(format).value # ""
        /\ ~(pc = "catch" /\ error.at = "lookup")

C10_Witness ==
    /\ pc = "goto" /\ format = "gpx" /\ req.id = "application/gpx+xml"

\* the steps of a successful url render, in program order
UrlOrder ==
    << "resolve", "launch", "newPage", "urlRead", "urlViewport", "urlGoto",
       "urlShot", "urlClose" >>

\* steps that belong to the module-based path only
ModuleOnlySteps ==
    {"readFile", "inject", "lookup", "goto", "evaluate", "resize", "settle",
     "screenshot", "close"}

\* C11: a url render never looks up a template, never registers the
\* injection, never awaits a completion channel and never resizes from
\* metadata; its screenshot is unclipped, follows viewport / navigation in
\* that order, and shows the fixed viewport set before the navigation
C11_UrlBypassesModules ==
    format = "url" =>
        /\ initScript = NoScript /\ globals = EmptyObj /\ modVars = EmptyObj
        /\ channel = "unset" /\ metadata = NoMeta /\ doc = NoDoc
        /\ \A i \in DOMAIN trace : trace[i] \notin ModuleOnlySteps
        /\ ~(pc = "failed" /\ error.at = "lookup")
        /\ shot.taken =>
              /\ shot.kind = "viewport" /\ shot.clip = << >>
              /\ shot.viewport = <<webWidth(req.opts), webHeight(req.opts)>>
              /\ SubSeq(trace, 1, 7) = SubSeq(UrlOrder, 1, 7)
        /\ pc = "done" => trace = UrlOrder

C11_Witness ==
    /\ format = "url" /\ pc = "done" /\ shot.taken
    /\ req.opts = [name |-> "sample.py", width |-> 0, height |-> 2000]
    /\ shot.viewport = <<1280, 2000>>
    /\ result = [width |-> 2560, height |-> 4000]

\* scale values a module may report
Scales == { <<1, 1>>, <<2, 1>>, <<3, 2>>, <<1280, 1700>> }

\* C12: once the driver has the metadata, the capture path, the viewport it
\* set, the clip rectangle and the reported size are what they would be for
\* the same metadata with any other scale
C12_ScaleHasNoInfluence ==
    (format # "url" /\ channel = "resolved"
        /\ pc \in {"settle", "screenshot", "close", "done"}) =>
        \A s \in Scales :
            LET m2 == [metadata EXCEPT !.scale = s] IN
            /\ UseClip(m2) <=> shot.kind = "clip"
            /\ viewport = ViewportFor(m2, req.opts)
            /\ shot.taken =>
                  shot.clip = IF UseClip(m2) THEN ClipRect(m2) ELSE << >>
            /\ pc = "done" => result = ActualSize(m2)

C12_Witness ==
    /\ pc = "done" /\ format = "pptx" /\ metadata.scale = <<2, 1>>
    /\ shot.taken /\ shot.viewport = <<1920, 1080>>
    /\ result = [width |-> 3840, height |-> 2160]

----------------------------------------------------------------------------
(* Manual testing: a template is opened in a browser directly, nothing is *)
(* injected                                                                *)

ModuleTags ==
    {"md", "html", "tex", "ipynb", "csv", "code", "pdf", "xlsx", "pptx", "rtf",
     "docx", "epub", "mmd", "geojson", "gpx"}

ManualRequest == [id |-> "", payload |-> << >>, opts |-> [name |-> ""]]

InitManual ==
    /\ pc = "manual"
    /\ req = ManualRequest
    /\ format \in ModuleTags
    /\ browser = "open"
    /\ viewport = <<800, 600>>
    /\ initScript = NoScript
    /\ globals = EmptyObj
    /\ modVars = EmptyObj
    /\ channel = "unset"
    /\ uiShown = FALSE
    /\ doc = NoDoc
    /\ metadata = NoMeta
    /\ trace = << >>
    /\ shot = NoShot
    /\ result = NoResult
    /\ error = NoError
    /\ pg = NoWalk
    /\ stderr = << >>
    /\ other = NoOther
    /\ windowScrollY = 0
    /\ fs = {}
    /\ cli = NoCli

\* the template's document loads: no init script has run, the module script
\* reads the globals and assigns window.renderComplete
OpenTemplate ==
    /\ pc = "manual"
    /\ pc' = "opened"
    /\ globals' = EmptyObj
    /\ modVars' = ModuleStart(format, EmptyObj)
    /\ channel' = "pending"
    /\ UNCHANGED <<req, format, browser, viewport, initScript, uiShown, doc, metadata,
                   trace, shot, result, error, pg, stderr, other, windowScrollY, fs, cli>>


\* a file-input handler that publishes the new render as the channel
SelectFileReassign ==
    /\ pc = "opened" /\ uiShown /\ channel = "resolved"
    /\ \E p \in Payloads, d \in ModuleDocs(format) :
        LET mv == [modVars EXCEPT !.fileBase64 = Base64(p)]
            o == ModuleRender(format, mv, globals, d)
        IN /\ modVars' = mv
           /\ doc' = d
           /\ windowScrollY' = IF Has(o, "scroll") THEN o.scroll ELSE windowScrollY
           /\ channel' = o.kind
           /\ metadata' = o.meta
    /\ uiShown' = FALSE
    /\ UNCHANGED <<pc, req, format, browser, viewport, initScript, globals,
                   trace, shot, result, error, pg, stderr, other, fs, cli>>

\* the file input's change handler: the chosen file is read, fileBase64 is
\* set to its content, the overlay is removed and the render function is
\* called again; what that call returns or throws is dropped
SelectFile ==
    /\ pc = "opened" /\ uiShown /\ channel = "resolved"
    /\ \E p \in Payloads, d \in ModuleDocs(format) :
        LET mv == [modVars EXCEPT !.fileBase64 = Base64(p)]
            o == ModuleRender(format, mv, globals, d)
        IN /\ modVars' = mv
           /\ doc' = d
           /\ windowScrollY' = IF Has(o, "scroll") THEN o.scroll ELSE windowScrollY
    /\ uiShown' = FALSE
    /\ UNCHANGED <<pc, req, format, browser, viewport, initScript, globals, channel,
                   metadata, trace, shot, result, error, pg, stderr, other, fs, cli>>

NextManual == OpenTemplate \/ ModuleSettle \/ SelectFile

SpecManual == InitManual /\ [][NextManual]_vars

\* C13: a module started on the placeholder payload shows the file-input
\* overlay and resolves its completion channel with provisional metadata;
\* the channel is neither rejected nor left without the overlay
C13_SentinelModeResolvesProvisional ==
    (pc = "opened" /\ channel # "pending"
        /\ (Has(modVars, "fileBase64") => modVars.fileBase64 = FILE_BASE64_PLACEHOLDER)) =>
        /\ channel = "resolved"
        /\ uiShown
        /\ metadata.pageCount = 1 /\ metadata.pageNumber = 1

----------------------------------------------------------------------------
(* Two renders in one process: every call of screenshot() constructs its   *)
(* own Renderer and launches its own browser; all state of render() is in  *)
(* local constants.  The scheduler may pass control from one render to the *)
(* other at any await.                                                     *)

\* the state of the running render
Self ==
    [pc |-> pc, req |-> req, format |-> format, browser |-> browser,
     viewport |-> viewport, initScript |-> initScript, globals |-> globals,
     modVars |-> modVars, channel |-> channel, uiShown |-> uiShown, doc |-> doc,
     metadata |-> metadata, trace |-> trace, shot |-> shot, result |-> result,
     error |-> error, stderr |-> stderr, scrollY |-> windowScrollY]

\* the state of a render that has not started
NewRender(r) ==
    [pc |-> "start", req |-> r, format |-> "", browser |-> "none",
     viewport |-> <<0, 0>>, initScript |-> NoScript, globals |-> EmptyObj,
     modVars |-> EmptyObj, channel |-> "unset", uiShown |-> FALSE, doc |-> NoDoc,
     metadata |-> NoMeta, trace |-> << >>, shot |-> NoShot, result |-> NoResult,
     error |-> NoError, stderr |-> << >>, scrollY |-> 0]

PairRequests ==
    { [id |-> "gpx", payload |-> << 35, 32, 97 >>, opts |-> [name |-> "sample.py"]],
      [id |-> "url", payload |-> << 35, 32, 97 >>, opts |-> [name |-> "sample.py"]] }

InitPair ==
    /\ pc = "start"
    /\ req \in PairRequests
    /\ format = ""
    /\ browser = "none"
    /\ viewport = <<0, 0>>
    /\ initScript = NoScript
    /\ globals = EmptyObj
    /\ modVars = EmptyObj
    /\ channel = "unset"
    /\ uiShown = FALSE
    /\ doc = NoDoc
    /\ metadata = NoMeta
    /\ trace = << >>
    /\ shot = NoShot
    /\ result = NoResult
    /\ error = NoError
    /\ pg = NoWalk
    /\ stderr = << >>
    /\ other \in { NewRender(r) : r \in PairRequests }
    /\ windowScrollY = 0
    /\ fs = {}
    /\ cli = NoCli

\* control passes to the other render
Switch ==
    /\ Has(other, "pc")
    /\ other' = Self
    /\ pc' = other.pc /\ req' = other.req /\ format' = other.format
    /\ browser' = other.browser /\ viewport' = other.viewport
    /\ initScript' = other.initScript /\ globals' = other.globals
    /\ modVars' = other.modVars /\ channel' = other.channel
    /\ uiShown' = other.uiShown /\ doc' = other.doc /\ metadata' = other.metadata
    /\ trace' = other.trace /\ shot' = other.shot /\ result' = other.result
    /\ error' = other.error /\ stderr' = other.stderr /\ windowScrollY' = other.scrollY
    /\ UNCHANGED <<pg, fs, cli>>

NextPair == Next \/ Switch

SpecPair == InitPair /\ [][NextPair]_vars

C15_EveryRenderTerminates == <>(pc \in Terminal)

\* the failure is a page number outside the document
PageIndexFailure ==
    /\ error.at = "evaluate" /\ channel = "rejected"
    /\ format = "pdf" /\ doc.ok /\ ~GetPageOk(modVars.pageNumber, doc.numPages)

\* C17: the line the CLI prints names the unknown format exactly when the
\* identifier was not resolved, says "Format not yet supported" exactly when
\* the template lookup failed, says "Invalid page number or page not found"
\* exactly when the page number was outside the document, and otherwise
\* shows the failure's own message
C17_CliMessageTellsTheFailureKind ==
    pc = "exit" =>
        /\ Includes(stderr, << "Unknown format" >>) <=> error.at = "resolve"
        /\ stderr = NotSupportedLine <=> error.at = "lookup"
        /\ stderr = InvalidPageLine <=> PageIndexFailure
        /\ (error.at \notin {"resolve", "lookup"} /\ ~PageIndexFailure) =>
              stderr = << "Error: " >> \o ErrorMessage

\* C16: resolveFormat returns the slug's tag for a whitelisted slug, else the
\* MIME type's tag for a whitelisted MIME type, and throws the unknown-format
\* error for every other identifier; what it returns is always a format tag
C16_ResolveFormatTotalOverWhitelist ==
    pc # "start" =>
        LET lower == toLowerCase(req.id) IN
        /\ lower \in DOMAIN SLUG_TO_FORMAT =>
              format = SLUG_TO_FORMAT[lower] /\ error.at # "resolve"
        /\ (lower \notin DOMAIN SLUG_TO_FORMAT /\ req.id \in DOMAIN MIME_TO_FORMAT) =>
              format = MIME_TO_FORMAT[req.id] /\ error.at # "resolve"
        /\ ~Whitelisted(req.id) =>
              error.at = "resolve" /\ error.msg = UnknownFormatError
        /\ error.at # "resolve" => format \in FileFormat

\* C18: the width and height a module resolves are the content's CSS-pixel
\* dimensions, without the module's internal scale: 960x540 for a slide, the
\* table's bounding rectangle for a sheet, the padded container (at least
\* 400 wide) for rich text
C18_DimensionsAreCssPixels ==
    (channel = "resolved" /\ format \in {"pptx", "xlsx", "rtf"}
        /\ modVars.fileBase64 # FILE_BASE64_PLACEHOLDER) =>
        CASE format = "pptx" -> metadata.width = 960 /\ metadata.height = 540
          [] format = "xlsx" ->
                /\ metadata.width = CeilHalf(doc.rect[1])
                /\ metadata.height = CeilHalf(doc.rect[2])
          [] format = "rtf" ->
                /\ metadata.width = Max(CeilHalf(doc.rect[1]) + 80, 400)
                /\ metadata.height = CeilHalf(doc.rect[2]) + 80

\* the steps of a successful module-based render, in program order
ModuleOrder ==
    << "resolve", "launch", "newPage", "readFile", "inject", "lookup", "goto",
       "evaluate", "resize", "settle", "screenshot", "close" >>

\* C19: the steps of a module-based render happen in program order (launch,
\* page with the initial viewport, injection, navigation, await, capture),
\* the module starts only after the injection, and the viewport is resized
\* and the screenshot taken only after the completion channel has resolved
C19_StepsInProgramOrder ==
    format # "url" =>
        /\ \A i \in DOMAIN trace :
              \/ i <= Len(ModuleOrder) /\ trace[i] = ModuleOrder[i]
              \/ i = Len(trace) /\ trace[i] = "catch"
        /\ browser = "none" => Len(trace) <= 2
        /\ channel # "unset" => initScript # NoScript /\ Len(trace) >= 7
        /\ (Len(trace) >= 3 /\ error.at # "newPage"
              /\ (Len(trace) < 9 \/ error.at = "resize")) =>
              viewport = <<initialWidth(req.opts), initialHeight(req.opts)>>
        /\ (pc \in {"resize", "settle", "screenshot", "close", "done"}
              \/ shot.kind # "none" \/ shot.taken) =>
              channel = "resolved" /\ metadata # NoMeta

C19_Witness ==
    /\ format = "md" /\ pc = "done" /\ trace = ModuleOrder
    /\ channel = "resolved" /\ shot.taken
    /\ Has(req.opts, "page") /\ req.opts.page = 2

\* C20: on the viewport path the driver sets the viewport to exactly the
\* metadata's width and height, waits the settle delay and then takes an
\* unclipped screenshot; the viewport at the screenshot is the metadata's
\* size, whatever the initial viewport and the width/height options were
C20_ViewportPathCapturesMetadataSize ==
    (format # "url" /\ shot.kind = "viewport") =>
        /\ ~UseClip(metadata)
        /\ pc \in {"settle", "screenshot", "close", "done"} =>
              viewport = <<metadata.width, metadata.height>>
        /\ shot.taken =>
              /\ shot.viewport = <<metadata.width, metadata.height>>
              /\ shot.clip = << >>
              /\ SubSeq(trace, 8, 11) = << "evaluate", "resize", "settle", "screenshot" >>

C20_Witness ==
    /\ format = "md" /\ shot.taken /\ shot.kind = "viewport"
    /\ req.opts = [name |-> "sample.py", width |-> 1000, height |-> 700]
    /\ metadata.width = 960 /\ metadata.height = 700
    /\ shot.viewport = <<960, 700>>

\* C21: on the clip path the viewport at the screenshot contains the clip
\* rectangle (it is at least clipX + width by clipY + height) and the
\* screenshot is clipped to exactly (clipX, clipY, width, height)
C21_ClipPathCoversAndClips ==
    (format # "url" /\ shot.kind = "clip") =>
        /\ UseClip(metadata)
        /\ pc \in {"settle", "screenshot", "close", "done"} =>
              /\ viewport[1] >= metadata.clipX + metadata.width
              /\ viewport[2] >= metadata.clipY + metadata.height
        /\ shot.taken =>
              /\ shot.viewport[1] >= metadata.clipX + metadata.width
              /\ shot.viewport[2] >= metadata.clipY + metadata.height
              /\ shot.clip = << metadata.clipX, metadata.clipY,
                                metadata.width, metadata.height >>
              /\ SubSeq(trace, 8, 11) = << "evaluate", "resize", "settle", "screenshot" >>

C21_Witness ==
    /\ format = "epub" /\ pc = "done" /\ shot.taken /\ shot.kind = "clip"
    /\ metadata.width = 1334 /\ metadata.height = 1831
    /\ metadata.clipX = 133 /\ metadata.clipY = 0
    /\ shot.viewport = <<1467, 1831>>
    /\ shot.clip = <<133, 0, 1334, 1831>>
    /\ result = [width |-> 2668, height |-> 3662]

----------------------------------------------------------------------------
(* Renderer.render called directly with a format tag *)

InitRender ==
    /\ pc = "launch"
    /\ req \in { r \in Requests : r.id \in FileFormat }
    /\ format = req.id
    /\ browser = "none"
    /\ viewport = <<0, 0>>
    /\ initScript = NoScript
    /\ globals = EmptyObj
    /\ modVars = EmptyObj
    /\ channel = "unset"
    /\ uiShown = FALSE
    /\ doc = NoDoc
    /\ metadata = NoMeta
    /\ trace = << >>
    /\ shot = NoShot
    /\ result = NoResult
    /\ error = NoError
    /\ pg = NoWalk
    /\ stderr = << >>
    /\ other = NoOther
    /\ windowScrollY = 0
    /\ fs = {}
    /\ cli = NoCli

NextRender ==
    \/ Launch \/ NewPage \/ ReadFile \/ Inject \/ Lookup \/ Goto
    \/ ModuleSettle \/ Evaluate \/ Resize \/ Settle \/ Screenshot \/ Close
    \/ UrlRead \/ UrlViewport \/ UrlGoto \/ UrlShot \/ UrlClose
    \/ Throw \/ Catch \/ CliCatch

SpecRender == InitRender /\ [][NextRender]_vars

\* C23: a render of the 'unknown' tag never gets past the template lookup:
\* the lookup throws 'No template available for format', nothing is
\* navigated, awaited, resized or captured, and the browser launched before
\* is closed when the error leaves render()
C23_NoTemplateFailsAtLookup ==
    format = "unknown" =>
        /\ pc \in {"launch", "newPage", "readFile", "inject", "lookup",
                   "catch", "failed", "exit"}
        /\ channel = "unset" /\ metadata = NoMeta /\ shot = NoShot /\ result = NoResult
        /\ \A i \in DOMAIN trace :
              trace[i] \notin {"goto", "evaluate", "resize", "settle", "screenshot", "close"}
        /\ (\E i \in DOMAIN trace : trace[i] = "lookup") =>
              /\ error = [at |-> "lookup", msg |-> NoTemplateError]
              /\ pc \in {"catch", "failed", "exit"}
              /\ viewport = <<initialWidth(req.opts), initialHeight(req.opts)>>
        /\ (pc \in Terminal /\ error.at # "launch") => browser = "closed"

C23_Witness ==
    /\ format = "unknown" /\ pc = "failed" /\ browser = "closed"
    /\ error = [at |-> "lookup", msg |-> NoTemplateError]
    /\ initScript # NoScript
    /\ trace = << "launch", "newPage", "readFile", "inject", "lookup", "catch" >>

\* C24: when the module page never assigned window.renderComplete, the
\* evaluation throws 'window.renderComplete not found' (unless the call
\* itself failed first); the render fails without a resize or a screenshot
\* and with the browser closed
C24_UnassignedChannelFails ==
    (format # "url" /\ channel = "unset") =>
        /\ pc \notin {"resize", "settle", "screenshot", "close", "done"}
        /\ shot = NoShot /\ metadata = NoMeta /\ result = NoResult
        /\ error.at = "evaluate" =>
              /\ error.msg \in {"window.renderComplete not found", "operation failed"}
              /\ pc \in {"catch", "failed", "exit"}
              /\ viewport = <<initialWidth(req.opts), initialHeight(req.opts)>>
              /\ pc \in Terminal => browser = "closed"
              /\ pc = "exit" => stderr # << >>

C24_Witness ==
    /\ channel = "unset" /\ pc = "failed" /\ browser = "closed"
    /\ format = "md" /\ initScript # NoScript
    /\ error = [at |-> "evaluate", msg |-> "window.renderComplete not found"]
    /\ trace[Len(trace) - 1] = "evaluate"

\* the union bounding box of the measured elements of an EPUB chapter that
\* are not layout containers, in half pixels
EpubBox(dom) ==
    LET counted == { e \in dom.elements :
                       /\ e.right - e.left > 0
                       /\ e.bottom - e.top > 0
                       /\ e.tag \notin containerTags }
    IN [any |-> counted # {},
        left |-> SetMin({ e.left : e \in counted }),
        top |-> SetMin({ e.top : e \in counted }),
        right |-> SetMax({ e.right : e \in counted }),
        bottom |-> SetMax({ e.bottom : e \in counted })]

\* C25: the EPUB module's metadata is the union bounding box of the measured
\* non-container elements (rounded outwards to whole pixels): clipX =
\* min(left), clipY = min(top), width = max(right) - min(left), height =
\* max(scrollHeight, max(bottom)) - min(top), also for content narrower or
\* shorter than 100 pixels
C25_EpubMetadataIsContentBox ==
    (channel = "resolved" /\ format = "epub" /\ UseClip(metadata)) =>
        LET b == EpubBox(doc.dom)
            scroll == SetMax({2 * doc.dom.bodyScroll, 2 * doc.dom.htmlScroll, b.bottom})
        IN /\ b.any
           /\ metadata.clipX = FloorHalf(b.left)
           /\ metadata.clipY = FloorHalf(b.top)
           /\ metadata.width = CeilHalf(b.right - b.left)
           /\ metadata.height = CeilHalf(scroll - b.top)

\* C26: in a render started by the driver the module works on the injected
\* payload, whatever it is: it never takes the placeholder in its place,
\* never shows the file selector and never resolves provisional metadata
C26_DriverRenderIsAutomated ==
    (format # "url" /\ channel # "unset") =>
        /\ Has(modVars, "fileBase64") =>
              /\ modVars.fileBase64 = Base64(req.payload)
              /\ modVars.fileBase64 # FILE_BASE64_PLACEHOLDER
        /\ ~uiShown

\* the metadata a module resolves on the placeholder payload
ProvisionalOf(tag) ==
    ModuleRender(tag, ModuleStart(tag, EmptyObj), EmptyObj,
                 CHOOSE d \in ModuleDocs(tag) : TRUE).meta

\* C27: window.renderComplete is assigned when the module script runs and
\* not again: on a page opened in manual mode the channel stays resolved
\* with the provisional metadata, also after the user has supplied a file
\* and the module has rendered it
C27_ChannelKeepsProvisionalMetadata ==
    (pc = "opened" /\ channel # "pending" /\ Has(modVars, "fileBase64")) =>
        /\ channel = "resolved"
        /\ metadata = ProvisionalOf(format)

C27_Witness ==
    /\ pc = "opened" /\ format = "md" /\ ~uiShown
    /\ modVars.fileBase64 = Base64(<< 35, 32, 97 >>)
    /\ doc.ok /\ doc.totalHeight = 3000
    /\ channel = "resolved"
    /\ metadata = Meta(960, 1280, 1, 1, <<1, 1>>)

\* the elements of the rendered EPUB page that the measurement counts
EpubCounted(dom) ==
    { e \in dom.elements :
        /\ e.right - e.left > 0
        /\ e.bottom - e.top > 0
        /\ e.tag \notin containerTags }

\* C28: a resolved metadata object carries clipX and clipY together or not
\* at all; the EPUB module's carries both when it counted an element of the
\* rendered page and neither on its fallback path
C28_ClipFieldsComeTogether ==
    channel = "resolved" =>
        /\ Has(metadata, "clipX") <=> Has(metadata, "clipY")
        /\ (format = "epub" /\ modVars.fileBase64 # FILE_BASE64_PLACEHOLDER) =>
              (Has(metadata, "clipX") <=> (doc.dom.present /\ EpubCounted(doc.dom) # {}))

C28_Witness ==
    /\ format = "epub" /\ channel = "resolved"
    /\ Has(metadata, "clipX") /\ Has(metadata, "clipY")
    /\ metadata.clipX > 0
    /\ pc = "done"

----------------------------------------------------------------------------
(* The command line: js/src/cli.ts and js/src/detector.ts *)

\* the extensions detectFormat maps to 'code'
CodeExtensions ==
    {".js", ".jsx", ".ts", ".tsx", ".py", ".rb", ".java", ".c", ".cpp", ".cc",
     ".cxx", ".h", ".hpp", ".cs", ".go", ".rs", ".swift", ".kt", ".kts",
     ".scala", ".php", ".sh", ".bash", ".zsh", ".fish", ".ps1", ".sql", ".json",
     ".yaml", ".yml", ".xml", ".css", ".scss", ".sass", ".less", ".vue",
     ".svelte", ".r", ".lua", ".perl", ".pl", ".ex", ".exs", ".erl", ".hs",
     ".ml", ".fs", ".fsx", ".clj", ".cljs", ".dart", ".zig", ".nim", ".v",
     ".toml", ".ini", ".conf", ".graphql", ".gql", ".proto", ".tf", ".hcl",
     ".asm", ".s", ".diff", ".patch", ".mdx", ".astro"}

extensionMap ==
    (".pdf" :> "pdf") @@ (".epub" :> "epub") @@ (".docx" :> "docx") @@
    (".xlsx" :> "xlsx") @@ (".pptx" :> "pptx") @@ (".md" :> "md") @@
    (".markdown" :> "md") @@ (".html" :> "html") @@ (".htm" :> "html") @@
    (".csv" :> "csv") @@ (".tsv" :> "csv") @@ (".rtf" :> "rtf") @@
    (".ipynb" :> "ipynb") @@ (".tex" :> "tex") @@ (".latex" :> "tex") @@
    [e \in CodeExtensions |-> "code"] @@
    (".url" :> "url") @@ (".mmd" :> "mmd") @@ (".mermaid" :> "mmd") @@
    (".location" :> "location") @@ (".loc" :> "location") @@
    (".geo" :> "location")

\* detectFormat on a file with extension extName and content buffer: the
\* extension table first, then the magic bytes "%PDF" and "PK"
detectFormat(extName, buffer) ==
    LET ext == toLowerCase(extName) IN
    IF JsIn(ext, extensionMap) THEN JsGet(extensionMap, ext)
    ELSE IF Len(buffer) >= 4 /\ SubSeq(buffer, 1, 4) = << 37, 80, 68, 70 >> THEN "pdf"
    ELSE IF Len(buffer) >= 2 /\ SubSeq(buffer, 1, 2) = << 80, 75 >> THEN "epub"
    ELSE "unknown"

\* largest suffix number getUniqueOutputPath tries
MaxCounter == 4

\* two command-line processes started side by side
Runs == 1 .. 2

\* file contents on disk: those of Payloads and a zip header
CliPayloads == Payloads \cup { << 80, 75, 3, 4 >> }

\* input files of the first process: every extension of the table on one
\* content, the extensions outside it on every content, and a missing file
CliInputs ==
    { [stem |-> "a", ext |-> e, payload |-> << 35, 32, 97 >>, exists |-> TRUE] :
        e \in DOMAIN extensionMap \cup {".PDF"} }
    \cup { [stem |-> "a", ext |-> e, payload |-> p, exists |-> TRUE] :
             e \in {"", ".bin", ".geojson"}, p \in CliPayloads }
    \cup { [stem |-> "a", ext |-> ".md", payload |-> << >>, exists |-> FALSE] }

\* input files of the second process: the same file, a file with the same
\* stem and a file with another stem, all in one directory
CliInputsBeside ==
    { [stem |-> "a", ext |-> ".md", payload |-> << 35, 32, 97 >>, exists |-> TRUE],
      [stem |-> "a", ext |-> ".html", payload |-> << 35, 32, 97 >>, exists |-> TRUE],
      [stem |-> "b", ext |-> ".md", payload |-> << 35, 32, 97 >>, exists |-> TRUE] }

\* output files already in the directory; <<stem, 0>> is "stem.png" and
\* <<stem, n>> is "stem (n).png"; by: the process that wrote the content
InitialFiles ==
    { {},
      { [path |-> <<"a", 0>>, by |-> 0] },
      { [path |-> <<"a", 0>>, by |-> 0], [path |-> <<"a", 1>>, by |-> 0] } }

NewRun(i) ==
    [pc |-> "read", input |-> i, tag |-> "", counter |-> 0, out |-> 0, err |-> ""]

NoRequest == [id |-> "", payload |-> << >>, opts |-> [name |-> ""]]

driverVars ==
    <<pc, req, format, browser, viewport, initScript, globals, modVars,
      channel, uiShown, doc, metadata, trace, shot, result, error, pg, stderr,
      other, windowScrollY>>

InitCli ==
    /\ pc = "idle"
    /\ req = NoRequest
    /\ format = ""
    /\ browser = "none"
    /\ viewport = <<0, 0>>
    /\ initScript = NoScript
    /\ globals = EmptyObj
    /\ modVars = EmptyObj
    /\ channel = "unset"
    /\ uiShown = FALSE
    /\ doc = NoDoc
    /\ metadata = NoMeta
    /\ trace = << >>
    /\ shot = NoShot
    /\ result = NoResult
    /\ error = NoError
    /\ pg = NoWalk
    /\ stderr = << >>
    /\ other = NoOther
    /\ windowScrollY = 0
    /\ fs \in InitialFiles
    /\ \E i \in CliInputs, j \in CliInputsBeside : cli = << NewRun(i), NewRun(j) >>

\* access(path) resolves: a file is there
Accessible(path) == \E f \in fs : f.path = path

\* readFile(input) of the action; a missing input ends the process
CliRead ==
    /\ \E r \in Runs :
        /\ cli[r].pc = "read"
        /\ cli' = [cli EXCEPT ![r] =
                     IF cli[r].input.exists
                         THEN [@ EXCEPT !.pc = "detect"]
                         ELSE [@ EXCEPT !.pc = "exit1", !.err = "Input file not found"]]
    /\ UNCHANGED <<driverVars, fs>>

\* detectFormat(input) and the 'unknown' test of the action
CliDetect ==
    /\ \E r \in Runs :
        /\ cli[r].pc = "detect"
        /\ LET inputFormat == detectFormat(cli[r].input.ext, cli[r].input.payload) IN
           cli' = [cli EXCEPT ![r] =
                     IF inputFormat = "unknown"
                         THEN [@ EXCEPT !.pc = "exit1", !.tag = inputFormat,
                                        !.err = "Unsupported file format"]
                         ELSE [@ EXCEPT !.pc = "access", !.tag = inputFormat]]
    /\ UNCHANGED <<driverVars, fs>>

\* one `await access(...)` of getUniqueOutputPath: counter 0 is basePath,
\* counter n the n-th suffixed name; the first name with no file is returned
CliAccess ==
    /\ \E r \in Runs :
        /\ cli[r].pc = "access"
        /\ IF Accessible(<<cli[r].input.stem, cli[r].counter>>)
               THEN /\ cli[r].counter < MaxCounter
                    /\ cli' = [cli EXCEPT ![r].counter = @ + 1]
               ELSE cli' = [cli EXCEPT ![r].out = cli[r].counter, ![r].pc = "render"]
    /\ UNCHANGED <<driverVars, fs>>

\* what `await screenshot(inputData, inputFormat, ...)` can come to
CliOutcome(tag) ==
    LET rf == resolveFormat(tag) IN
    IF ~rf.ok THEN { [ok |-> FALSE, msg |-> rf.value] }
    ELSE IF rf.value # "url" /\ ~getTemplatePath(rf.value).ok
        THEN { [ok |-> FALSE, msg |-> NoTemplateError] }
    ELSE { [ok |-> TRUE, msg |-> ""], [ok |-> FALSE, msg |-> "render failed"] }

\* the screenshot() call of the action, and its catch block
CliScreenshot ==
    /\ \E r \in Runs :
        /\ cli[r].pc = "render"
        /\ \E o \in CliOutcome(cli[r].tag) :
            cli' = [cli EXCEPT ![r] =
                      IF o.ok THEN [@ EXCEPT !.pc = "write"]
                      ELSE [@ EXCEPT !.pc = "exit1", !.err = o.msg]]
    /\ UNCHANGED <<driverVars, fs>>

\* writeFile(outputPath, result.data): the file is created or replaced
CliWrite ==
    /\ \E r \in Runs :
        /\ cli[r].pc = "write"
        /\ LET outputPath == <<cli[r].input.stem, cli[r].out>> IN
           \/ /\ fs' = { f \in fs : f.path # outputPath }
                         \cup { [path |-> outputPath, by |-> r] }
              /\ cli' = [cli EXCEPT ![r].pc = "exit0"]
           \/ /\ fs' = fs
              /\ cli' = [cli EXCEPT ![r].pc = "exit1", ![r].err = "write failed"]
    /\ UNCHANGED driverVars

NextCli == CliRead \/ CliDetect \/ CliAccess \/ CliScreenshot \/ CliWrite

SpecCli == InitCli /\ [][NextCli]_vars

\* C29: a tag other than 'unknown' that detectFormat returned resolves to
\* itself in resolveFormat and has a template, and the process does not
\* fail with the unknown-format or the no-template error
C29_DetectedTagsAreRenderable ==
    \A r \in DOMAIN cli :
        cli[r].tag \notin {"", "unknown"} =>
            /\ resolveFormat(cli[r].tag) = [ok |-> TRUE, value |-> cli[r].tag]
            /\ getTemplatePath(cli[r].tag).ok
            /\ cli[r].err \notin {UnknownFormatError, NoTemplateError}

\* C30: a file that is in the output directory keeps its content: no
\* process writes to a path at which a file exists at that moment
C30_ExistingFilesAreKept ==
    [][\A f \in fs : f \in fs']_vars

====
